---- MODULE Spec2Model ----
(***************************************************************************)
(* Model of the Ambient Weather Network client (package awn, client.go):   *)
(* the historical-data pagination (GetHistoricalData and                   *)
(* GetHistoricalDataAsync), the single-window fetcher getDeviceData, and   *)
(* the date converter ConvertTimeToEpoch.                                  *)
(***************************************************************************)
EXTENDS Integers, Sequences, FiniteSets, TLC

VARIABLES
    clock,          \* time.Now().UnixMilli()
    ctxErr,         \* ctx.Err(): "nil", "Canceled" or "DeadlineExceeded"
    mode,           \* which entry point the caller uses: "sync" or "async"
    callerFD,       \* the caller's FunctionData (passed by value)
    funcData,       \* the callee's copy of FunctionData
    callerPc,       \* "before", "incall" (GetHistoricalDataAsync running), "returned"
    now0,           \* the clock when the call was made
    pc,             \* position of the pagination loop
    i,              \* the loop variable of the for statement
    inflight,       \* HTTP requests sent and not yet returned
    fetches,        \* one entry per getDeviceData call: its checkpoint and its error
    lastCall,       \* the last completed getDeviceData call: inputs and results
    deviceResponse, \* GetHistoricalData's accumulator
    ret,            \* what GetHistoricalData returned
    resp,           \* the response the producer goroutine is sending
    outClosed,      \* out has been closed
    closeCount,     \* number of close(out) executed
    received,       \* what the consumer has received from out
    sawClose,       \* the consumer has observed the close of out
    wgDone,         \* number of w.Done() executed
    sinceReturn,    \* ms from the last return of getDeviceData to the sending of the
                    \* next request (or to now, while none is sent), at most OneSecond
    convPc,         \* ConvertTimeToEpoch: "idle", "called", "returned", "exited"
    convIn,         \* its argument t
    convRet,        \* its return values
    apiPc,          \* a direct call: "idle", "getDeviceData" or "GetLatestData" (request sent)
    apiFD,          \* the FunctionData it was called with
    requests,       \* the resty requests the call created with client.R(), in order
    apiRet,         \* what the last direct call returned
    checkRet,       \* what the last CheckResponse call did
    heap,           \* the FunctionData objects allocated by NewFunctionData
    created,        \* for each of them, the arguments of its CreateAPIConfig call
    touched,        \* the objects the caller has assigned to since
    getPc,          \* one Get of the client: "idle", "running" or "surfaced"
    attempt,        \* resty's count of the attempts made for it
    statuses,       \* the status codes of the responses to these attempts
    pkg,            \* two sessions run the code of "awn" (client.go) or "client" (client/client.go)
    cells,          \* FunctionData objects: cell 0 is the caller's, the others the parameters
    sesPc,          \* position of each session: "before", "test", "set", "get", "done"
    sesI,           \* the loop variable i of each session
    ctQuery,        \* the query parameters of the resty client that CreateAPIConfig made
    sent,           \* for each session, the requests it has sent
    sentinel,       \* errors.go: the package variables ErrMalformedDate, ..., by kind
    errA,           \* the kind of the sentinel an error value was derived from
    errX,           \* that error value
    errArg          \* the err it was last given through from (nil at first)

pagVars == <<clock, ctxErr, mode, callerFD, funcData, callerPc, now0, pc, i,
             inflight, fetches, lastCall, deviceResponse, ret, resp, outClosed,
             closeCount, received, sawClose, wgDone, sinceReturn>>
convVars == <<convPc, convIn, convRet>>
apiVars == <<apiPc, apiFD, requests, apiRet, checkRet>>
cfgVars == <<heap, created, touched>>
rtVars == <<getPc, attempt, statuses>>
sesVars == <<pkg, cells, sesPc, sesI, ctQuery, sent>>
errVars == <<sentinel, errA, errX, errArg>>
otherVars == <<rtVars, sesVars, errVars>>
vars == <<pagVars, convVars, apiVars, cfgVars, otherVars>>

----------------------------------------------------------------------------
(* Constants of client.go *)

epochIncrement24h == 86400000

\* README, Constrictions: one API call per second, a wait of one second
\* after each call; in ms
OneSecond == 1000

Min(a, b) == IF a <= b THEN a ELSE b

(* Bounds of the model *)

\* wall-clock times and checkpoints range over day MaxDays and before
MaxDays == 2
\* a window returns at most MaxRecs records
MaxRecs == 1

Offsets == {0, 1}
Times == {d * epochIncrement24h + o : d \in 0..MaxDays, o \in Offsets}
LastTime == MaxDays * epochIncrement24h + 1
StartEpochs == Times \cup {LastTime + 1}

NoCall == [ctx |-> "none", trecs |-> 0, terr |-> "nil", recs |-> 0, err |-> "nil"]
NoRet == [returned |-> FALSE, val |-> <<>>, err |-> "nil"]
NoResp == [window |-> 0, recs |-> 0, err |-> "nil"]

\* what the transport call (resty's Get with SetResult) can come back with:
\* the decoded records and resty's error
TransportOutcomes == [recs : 0..MaxRecs, err : {"nil", "transport"}]

----------------------------------------------------------------------------
(* NewFunctionData and CreateAPIConfig *)

NewFunctionData == [API |-> "", App |-> "", Epoch |-> 0, Limit |-> 1, Mac |-> ""]

CreateAPIConfig(api, app) == [NewFunctionData EXCEPT !.API = api, !.App = app]

----------------------------------------------------------------------------
(* getDeviceData: the part after the transport call has returned.  ce is   *)
(* ctx.Err() at that moment, t the transport's outcome.                    *)

\* faulty variant: the decoded records are returned beside the timeout error
getDeviceDataKeepsRecords(ce, t) ==
    IF ce = "DeadlineExceeded"
    THEN [recs |-> t.recs, err |-> "ErrContextTimeoutExceeded"]
    ELSE [recs |-> t.recs, err |-> t.err]

\* faulty variant: a cancelled context fails the window as an expired one does
getDeviceDataAnyCtxErr(ce, t) ==
    IF ce /= "nil"
    THEN [recs |-> 0, err |-> "ErrContextTimeoutExceeded"]
    ELSE [recs |-> t.recs, err |-> t.err]

getDeviceData(ce, t) ==
    IF ce = "DeadlineExceeded"
    THEN [recs |-> 0, err |-> "ErrContextTimeoutExceeded"]
    ELSE [recs |-> t.recs, err |-> t.err]

----------------------------------------------------------------------------
(* The for statement of GetHistoricalData and GetHistoricalDataAsync *)

\* faulty variants of the loop condition: strict, reversed, and against the
\* time sampled once when the call began
LoopCondStrict(cp, now) == cp < now
LoopCondReversed(cp, now) == cp >= now
LoopCondAtStart(cp, now) == cp <= now0

LoopCond(cp, now) == cp <= now

\* faulty variant: the checkpoint moves back a day
NextCheckpointBackward(cp) == cp - epochIncrement24h

NextCheckpoint(cp) == cp + epochIncrement24h

\* faulty variant: the next iteration starts while the request is in flight
AtLoopTestFanOut == pc \in {"test", "inflight"}

AtLoopTest == pc = "test"

\* faulty variant: a window without records is skipped
AppendNonEmpty(s, r) == IF r.recs = 0 THEN s ELSE Append(s, r)

\* faulty variant: the response of a failed window is left out
AppendSuccessful(s, r) == IF r.err /= "nil" THEN s ELSE Append(s, r)

AppendResponse(s, r) == Append(s, r)

----------------------------------------------------------------------------
(* Strings are sequences of one-character strings *)

DigitChars == <<"0", "1", "2", "3", "4", "5", "6", "7", "8", "9">>

isDigit(s, p) == p <= Len(s) /\ \E k \in 1..Len(DigitChars) : DigitChars[k] = s[p]

DigitVal(c) == (CHOOSE k \in 1..Len(DigitChars) : DigitChars[k] = c) - 1

RECURSIVE atoi(_)
atoi(s) == IF s = <<>> THEN 0
           ELSE atoi(SubSeq(s, 1, Len(s) - 1)) * Len(DigitChars) + DigitVal(s[Len(s)])

\* a natural number in decimal
RECURSIVE Decimal(_)
Decimal(n) ==
    IF n < 10 THEN <<DigitChars[n + 1]>>
    ELSE Decimal(n \div 10) \o <<DigitChars[(n % 10) + 1]>>

\* strconv.FormatInt(n, 10) and strconv.Itoa(n)
FormatInt(n) == IF n < 0 THEN <<"-">> \o Decimal(0 - n) ELSE Decimal(n)

Pad2(n) == <<DigitChars[(n \div 10) + 1], DigitChars[(n % 10) + 1]>>
Pad4(n) == Pad2(n \div 100) \o Pad2(n % 100)
Dash == <<"-">>
FormatDate(y, m, d) == Pad4(y) \o Dash \o Pad2(m) \o Dash \o Pad2(d)

----------------------------------------------------------------------------
(* YearMonthDay.verify: regexp.MatchString(`\d{4}-\d{2}-\d{2}`, y), which  *)
(* is not anchored.  The pattern is a valid constant, so MatchString never *)
(* returns an error.                                                       *)

MatchAt(s, p) ==
    /\ p + 9 <= Len(s)
    /\ \A k \in {0, 1, 2, 3, 5, 6, 8, 9} : isDigit(s, p + k)
    /\ s[p + 4] = "-"
    /\ s[p + 7] = "-"

MatchAnchored(s) == Len(s) = 10 /\ MatchAt(s, 1)

MatchString(s) == \E p \in 1..Len(s) : MatchAt(s, p)

verify(y) ==
    IF ~MatchString(y) THEN [ok |-> FALSE, err |-> "ErrMalformedDate"]
    ELSE [ok |-> TRUE, err |-> "nil"]

----------------------------------------------------------------------------
(* time.Parse(time.DateOnly, t), layout "2006-01-02", and Time.UnixMilli.  *)
(* A time is the number of days since 1970-01-01 and the millisecond of    *)
(* the day; UnixMilli is days * 86400000 + ms.                             *)

isLeap(y) == y % 4 = 0 /\ (y % 100 /= 0 \/ y % 400 = 0)

daysIn(m, y) ==
    IF m = 2 THEN (IF isLeap(y) THEN 29 ELSE 28)
    ELSE IF m \in {4, 6, 9, 11} THEN 30 ELSE 31

\* faulty variant: the day of the month is counted from zero
DaysFromCivilOneBased(y, m, d) ==
    LET yy  == IF m <= 2 THEN y - 1 ELSE y
        era == yy \div 400
        yoe == yy - era * 400
        mp  == (m + 9) % 12
        doy == (153 * mp + 2) \div 5 + d
        doe == yoe * 365 + yoe \div 4 - yoe \div 100 + doy
    IN  era * 146097 + doe - 719468

\* days from 1970-01-01 to y-m-d in the proleptic Gregorian calendar
DaysFromCivil(y, m, d) ==
    LET yy  == IF m <= 2 THEN y - 1 ELSE y
        era == yy \div 400
        yoe == yy - era * 400
        mp  == (m + 9) % 12
        doy == (153 * mp + 2) \div 5 + d - 1
        doe == yoe * 365 + yoe \div 4 - yoe \div 100 + doy
    IN  era * 146097 + doe - 719468

\* the zero Time (January 1, year 1) that Parse returns beside an error
ZeroTime == [days |-> DaysFromCivil(1, 1, 1), ms |-> 0]

ParseError == [time |-> ZeroTime, err |-> "ParseError"]

Parse(t) ==
    \* stdLongYear: four characters, all digits
    IF ~(Len(t) >= 4 /\ \A k \in 1..4 : isDigit(t, k)) THEN ParseError
    \* the literal "-", then stdZeroMonth: two digits
    ELSE IF ~(Len(t) >= 5 /\ t[5] = "-") THEN ParseError
    ELSE IF ~(isDigit(t, 6) /\ isDigit(t, 7)) THEN ParseError
    \* the literal "-", then stdZeroDay: two digits
    ELSE IF ~(Len(t) >= 8 /\ t[8] = "-") THEN ParseError
    ELSE IF ~(isDigit(t, 9) /\ isDigit(t, 10)) THEN ParseError
    ELSE LET year  == atoi(SubSeq(t, 1, 4))
             month == atoi(SubSeq(t, 6, 7))
             day   == atoi(SubSeq(t, 9, 10))
         IN  IF month <= 0 \/ 12 < month THEN ParseError
             \* extra text after the layout
             ELSE IF Len(t) > 10 THEN ParseError
             ELSE IF day < 1 \/ day > daysIn(month, year) THEN ParseError
             ELSE [time |-> [days |-> DaysFromCivil(year, month, day), ms |-> 0],
                   err |-> "nil"]

----------------------------------------------------------------------------
(* ConvertTimeToEpoch.  log.Fatalf writes the message and calls os.Exit(1):*)
(* the process ends and nothing is returned to the caller.                 *)

NoConvRet == [epoch |-> ZeroTime, err |-> "none"]
NoApiRet == [fn |-> "none", ctx |-> "none", val |-> "none", recs |-> 0, err |-> "nil"]
NoCheckRet == [called |-> FALSE, hasError |-> FALSE, message |-> "", panic |-> FALSE,
               ok |-> FALSE, err |-> "nil"]

ConvertTimeToEpoch(t) ==
    LET v == verify(t) IN
    IF ~v.ok THEN [exit |-> TRUE, epoch |-> ZeroTime, err |-> "none"]
    ELSE LET p == Parse(t) IN [exit |-> FALSE, epoch |-> p.time, err |-> p.err]

----------------------------------------------------------------------------
(* The arguments ConvertTimeToEpoch is called with *)

Years == {1970, 2014, 2023, 2024}
Months == 0..13
DaysOfMonth == {0, 1, 15, 28, 29, 30, 31, 32}

DateStrings == {FormatDate(y, m, d) : y \in Years, m \in Months, d \in DaysOfMonth}

ConvInputs ==
    DateStrings
    \cup {<<"x">> \o s : s \in DateStrings}
    \cup {s \o <<"1">> : s \in DateStrings}
    \cup { <<"1", "1", "-", "1", "5", "-", "2", "0", "2", "1">>,
           <<"1", "1", "1", "5", "2", "0", "2", "1">>,
           <<"1", "1", "-", "1", "5", "-", "2", "0", "2", "1", ":", "1", "2", ":", "4", "2">>,
           <<>> }

----------------------------------------------------------------------------
(* Initial states *)

PagIdle ==
    /\ ctxErr = "nil"
    /\ callerPc = "before"
    /\ funcData = NewFunctionData
    /\ now0 = 0
    /\ pc = "idle"
    /\ i = 0
    /\ inflight = 0
    /\ fetches = <<>>
    /\ lastCall = NoCall
    /\ deviceResponse = <<>>
    /\ ret = NoRet
    /\ resp = NoResp
    /\ outClosed = FALSE
    /\ closeCount = 0
    /\ received = <<>>
    /\ sawClose = FALSE
    /\ wgDone = 0
    /\ sinceReturn = 0

ConvIdle ==
    /\ convPc = "idle"
    /\ convIn = <<>>
    /\ convRet = NoConvRet

ApiIdle ==
    /\ apiPc = "idle"
    /\ apiFD = NewFunctionData
    /\ requests = <<>>
    /\ apiRet = NoApiRet
    /\ checkRet = NoCheckRet

CfgIdle ==
    /\ heap = <<>>
    /\ created = <<>>
    /\ touched = {}

\* a map[string]string, and the effect of setting some of its keys
EmptyMap == [k \in {} |-> ""]

MapSet(m, params) ==
    [k \in DOMAIN m \cup DOMAIN params |-> IF k \in DOMAIN params THEN params[k] ELSE m[k]]

\* two pagination sessions, started from one FunctionData value
Sessions == {1, 2}

SesIdle ==
    /\ pkg = "awn"
    /\ cells = [c \in {0} \cup Sessions |-> NewFunctionData]
    /\ sesPc = [s \in Sessions |-> "before"]
    /\ sesI = [s \in Sessions |-> 0]
    /\ ctQuery = EmptyMap
    /\ sent = [s \in Sessions |-> <<>>]

\* errors.go: the kinds (iota, the first value skipped) and the sentinels.
\* An error value is written as its chain: the error itself, then what
\* Unwrap gives, and so on; nil is the empty chain.
errContextTimeoutExceeded == 1
errMalformedDate == 2
errRegexFailed == 3
errAPIKeyMissing == 4
errAppKeyMissing == 5
errInvalidDateFormat == 6
errMacAddressMissing == 7

Kinds == errContextTimeoutExceeded..errMacAddressMissing

\* ClientError{kind: k}: value 0 and err nil
Sentinel(k) == <<[t |-> "ClientError", kind |-> k, value |-> 0]>>

ErrIdle ==
    /\ sentinel = [k \in Kinds |-> Sentinel(k)]
    /\ errA = 0
    /\ errX = <<>>
    /\ errArg = <<>>

RetryIdle ==
    /\ getPc = "idle"
    /\ attempt = 0
    /\ statuses = <<>>

OtherIdle ==
    /\ RetryIdle
    /\ SesIdle
    /\ ErrIdle

Init ==
    /\ clock \in Times
    /\ mode \in {"sync", "async"}
    /\ \E c \in StartEpochs :
           callerFD = [CreateAPIConfig("api", "app") EXCEPT !.Epoch = c, !.Mac = "mac"]
    /\ PagIdle
    /\ ConvIdle
    /\ ApiIdle
    /\ CfgIdle
    /\ OtherIdle

InitConv ==
    /\ clock = 0
    /\ mode = "sync"
    /\ callerFD = CreateAPIConfig("api", "app")
    /\ PagIdle
    /\ ConvIdle
    /\ ApiIdle
    /\ CfgIdle
    /\ OtherIdle

----------------------------------------------------------------------------
(* The environment: the wall clock and the context *)

Tick ==
    /\ \E t \in Times :
           /\ t > clock
           /\ clock' = t
           /\ sinceReturn' = IF pc \in {"test", "send"} /\ fetches /= <<>>
                             THEN Min(sinceReturn + (t - clock), OneSecond)
                             ELSE sinceReturn
    /\ UNCHANGED <<ctxErr, mode, callerFD, funcData, callerPc, now0, pc, i,
                   inflight, fetches, lastCall, deviceResponse, ret, resp,
                   outClosed, closeCount, received, sawClose, wgDone, convVars,
                   apiVars, cfgVars, otherVars>>

\* faulty variant: the producer's send also waits on ctx.Done(), so the
\* cancellation ends a pending send and the loop
CtxCancelUnblocks ==
    /\ ctxErr = "nil"
    /\ ctxErr' = "Canceled"
    /\ pc' = IF mode = "async" /\ pc = "send" THEN "exit" ELSE pc
    /\ UNCHANGED <<clock, mode, callerFD, funcData, callerPc, now0, i,
                   inflight, fetches, lastCall, deviceResponse, ret, resp,
                   outClosed, closeCount, received, sawClose, wgDone, sinceReturn,
                   convVars, apiVars, cfgVars, otherVars>>

CtxCancel ==
    /\ ctxErr = "nil"
    /\ ctxErr' = "Canceled"
    /\ UNCHANGED <<clock, mode, callerFD, funcData, callerPc, now0, pc, i,
                   inflight, fetches, lastCall, deviceResponse, ret, resp,
                   outClosed, closeCount, received, sawClose, wgDone, sinceReturn, convVars, apiVars, cfgVars,
                   otherVars>>

CtxDeadline ==
    /\ ctxErr = "nil"
    /\ ctxErr' = "DeadlineExceeded"
    /\ UNCHANGED <<clock, mode, callerFD, funcData, callerPc, now0, pc, i,
                   inflight, fetches, lastCall, deviceResponse, ret, resp,
                   outClosed, closeCount, received, sawClose, wgDone, sinceReturn, convVars, apiVars, cfgVars,
                   otherVars>>

----------------------------------------------------------------------------
(* GetHistoricalData and GetHistoricalDataAsync *)

\* entry of GetHistoricalData: funcData is a copy, deviceResponse is nil,
\* i := funcData.Epoch
SyncCall ==
    /\ mode = "sync"
    /\ callerPc = "before"
    /\ callerPc' = "incall"
    /\ funcData' = callerFD
    /\ i' = callerFD.Epoch
    /\ now0' = clock
    /\ pc' = "test"
    /\ UNCHANGED <<clock, ctxErr, mode, callerFD, inflight, fetches, lastCall,
                   deviceResponse, ret, resp, outClosed, closeCount, received,
                   sawClose, wgDone, sinceReturn, convVars, apiVars, cfgVars,
                   otherVars>>

\* entry of GetHistoricalDataAsync: defer w.Done(), out := make(chan), and
\* the go statement; the goroutine starts with i := funcData.Epoch
AsyncCall ==
    /\ mode = "async"
    /\ callerPc = "before"
    /\ callerPc' = "incall"
    /\ funcData' = callerFD
    /\ i' = callerFD.Epoch
    /\ now0' = clock
    /\ pc' = "test"
    /\ UNCHANGED <<clock, ctxErr, mode, callerFD, inflight, fetches, lastCall,
                   deviceResponse, ret, resp, outClosed, closeCount, received,
                   sawClose, wgDone, sinceReturn, convVars, apiVars, cfgVars,
                   otherVars>>

\* faulty variant: the return without the deferred w.Done()
AsyncReturnNoDone ==
    /\ mode = "async"
    /\ callerPc = "incall"
    /\ callerPc' = "returned"
    /\ UNCHANGED <<clock, ctxErr, mode, callerFD, funcData, now0, pc, i, inflight,
                   fetches, lastCall, deviceResponse, ret, resp, outClosed,
                   closeCount, received, sawClose, wgDone, sinceReturn, convVars, apiVars, cfgVars,
                   otherVars>>

\* return out, nil: the deferred w.Done() runs and the caller gets out
AsyncReturn ==
    /\ mode = "async"
    /\ callerPc = "incall"
    /\ callerPc' = "returned"
    /\ wgDone' = wgDone + 1
    /\ UNCHANGED <<clock, ctxErr, mode, callerFD, funcData, now0, pc, i, inflight,
                   fetches, lastCall, deviceResponse, ret, resp, outClosed,
                   closeCount, received, sawClose, sinceReturn, convVars, apiVars, cfgVars,
                   otherVars>>

\* the loop test i <= time.Now().UnixMilli(); when it holds, funcData.Epoch = i
\* and getDeviceData sends its request
LoopTest ==
    /\ AtLoopTest
    /\ IF LoopCond(i, clock)
       THEN /\ funcData' = [funcData EXCEPT !.Epoch = i]
            /\ fetches' = Append(fetches, [window |-> i, err |-> "pending"])
            /\ inflight' = inflight + 1
            /\ pc' = "inflight"
       ELSE /\ pc' = "exit"
            /\ UNCHANGED <<funcData, fetches, inflight>>
    /\ UNCHANGED <<clock, ctxErr, mode, callerFD, callerPc, now0, i, lastCall,
                   deviceResponse, ret, resp, outClosed, closeCount, received,
                   sawClose, wgDone, sinceReturn, convVars, apiVars, cfgVars,
                   otherVars>>

\* faulty variant: the transport call never comes back
FetchReturnNever ==
    /\ pc = "inflight"
    /\ UNCHANGED vars

\* the transport call returns; getDeviceData examines ctx.Err() and returns;
\* CheckReturn logs at level "warning" and returns; then the response is
\* appended and i += epochIncrement24h (sync), or the send begins (async)
FetchReturn ==
    /\ pc = "inflight"
    /\ \E t \in TransportOutcomes :
         LET r  == getDeviceData(ctxErr, t)
             rr == [window |-> funcData.Epoch, recs |-> r.recs, err |-> r.err]
         IN  /\ lastCall' = [ctx |-> ctxErr, trecs |-> t.recs, terr |-> t.err,
                             recs |-> r.recs, err |-> r.err]
             /\ fetches' = [fetches EXCEPT ![Len(fetches)].err = r.err]
             /\ IF mode = "sync"
                THEN /\ deviceResponse' = AppendResponse(deviceResponse, rr)
                     /\ i' = NextCheckpoint(i)
                     /\ pc' = "test"
                     /\ UNCHANGED resp
                ELSE /\ resp' = rr
                     /\ pc' = "send"
                     /\ UNCHANGED <<deviceResponse, i>>
    /\ inflight' = inflight - 1
    /\ sinceReturn' = 0
    /\ UNCHANGED <<clock, ctxErr, mode, callerFD, funcData, callerPc, now0, ret,
                   outClosed, closeCount, received, sawClose, wgDone, convVars,
                   apiVars, cfgVars, otherVars>>

\* return deviceResponse, nil
SyncReturn ==
    /\ mode = "sync"
    /\ pc = "exit"
    /\ pc' = "done"
    /\ ret' = [returned |-> TRUE, val |-> deviceResponse, err |-> "nil"]
    /\ callerPc' = "returned"
    /\ UNCHANGED <<clock, ctxErr, mode, callerFD, funcData, now0, i, inflight,
                   fetches, lastCall, deviceResponse, resp, outClosed, closeCount,
                   received, sawClose, wgDone, sinceReturn, convVars, apiVars, cfgVars,
                   otherVars>>

\* faulty variant: out has a buffer, the send completes without a receiver
HandoffBuffered ==
    /\ mode = "async"
    /\ pc = "send"
    /\ resp' = NoResp
    /\ i' = NextCheckpoint(i)
    /\ pc' = "test"
    /\ UNCHANGED <<clock, ctxErr, mode, callerFD, funcData, callerPc, now0,
                   inflight, fetches, lastCall, deviceResponse, ret, outClosed,
                   closeCount, received, sawClose, wgDone, sinceReturn, convVars,
                   apiVars, cfgVars, otherVars>>

\* out <- resp on the unbuffered channel, completed by the consumer's receive;
\* the consumer has out only once GetHistoricalDataAsync has returned
Handoff ==
    /\ mode = "async"
    /\ pc = "send"
    /\ callerPc = "returned"
    /\ received' = Append(received, resp)
    /\ resp' = NoResp
    /\ i' = NextCheckpoint(i)
    /\ pc' = "test"
    /\ UNCHANGED <<clock, ctxErr, mode, callerFD, funcData, callerPc, now0,
                   inflight, fetches, lastCall, deviceResponse, ret, outClosed,
                   closeCount, sawClose, wgDone, sinceReturn, convVars, apiVars, cfgVars,
                   otherVars>>

\* faulty variant: close(out) is deferred in GetHistoricalDataAsync itself and
\* runs at its return, while the goroutine goes on
CloseOutAtReturn ==
    /\ mode = "async"
    /\ callerPc = "returned"
    /\ ~outClosed
    /\ outClosed' = TRUE
    /\ closeCount' = closeCount + 1
    /\ UNCHANGED <<clock, ctxErr, mode, callerFD, funcData, callerPc, now0, pc, i,
                   inflight, fetches, lastCall, deviceResponse, ret, resp,
                   received, sawClose, wgDone, sinceReturn, convVars, apiVars,
                   cfgVars, otherVars>>

\* the deferred close(out) when the goroutine's loop has ended
CloseOut ==
    /\ mode = "async"
    /\ pc = "exit"
    /\ pc' = "done"
    /\ outClosed' = TRUE
    /\ closeCount' = closeCount + 1
    /\ UNCHANGED <<clock, ctxErr, mode, callerFD, funcData, callerPc, now0, i,
                   inflight, fetches, lastCall, deviceResponse, ret, resp,
                   received, sawClose, wgDone, sinceReturn, convVars, apiVars, cfgVars,
                   otherVars>>

\* the consumer's receive on the closed channel
RecvClosed ==
    /\ mode = "async"
    /\ callerPc = "returned"
    /\ outClosed
    /\ ~sawClose
    /\ sawClose' = TRUE
    /\ UNCHANGED <<clock, ctxErr, mode, callerFD, funcData, callerPc, now0, pc, i,
                   inflight, fetches, lastCall, deviceResponse, ret, resp,
                   outClosed, closeCount, received, wgDone, sinceReturn, convVars, apiVars, cfgVars,
                   otherVars>>

Next ==
    \/ Tick
    \/ CtxCancel
    \/ CtxDeadline
    \/ SyncCall
    \/ AsyncCall
    \/ AsyncReturn
    \/ LoopTest
    \/ FetchReturn
    \/ SyncReturn
    \/ Handoff
    \/ CloseOut
    \/ RecvClosed

Spec == Init /\ [][Next]_vars

\* GetHistoricalData alone, under a fair scheduler: the calling goroutine
\* takes its steps and every transport call comes back; the clock and the
\* context are under no obligation
InitSync == Init /\ mode = "sync"

NextSync ==
    \/ Tick
    \/ CtxCancel
    \/ CtxDeadline
    \/ SyncCall
    \/ LoopTest
    \/ FetchReturn
    \/ SyncReturn

\* the steps of the goroutine that runs GetHistoricalData, one enabled at a time
SyncBody == LoopTest \/ FetchReturn \/ SyncReturn

SpecSync ==
    /\ InitSync
    /\ [][NextSync]_vars
    /\ WF_vars(SyncBody)

\* GetHistoricalDataAsync alone, under a fair scheduler, with a consumer
\* that keeps receiving from out
InitAsync == Init /\ mode = "async"

NextAsync ==
    \/ Tick
    \/ CtxCancel
    \/ CtxDeadline
    \/ AsyncCall
    \/ AsyncReturn
    \/ LoopTest
    \/ FetchReturn
    \/ Handoff
    \/ CloseOut
    \/ RecvClosed

\* the steps of the producer goroutine, and the receives of the consumer;
\* within each, one is enabled at a time
Producer == LoopTest \/ FetchReturn \/ CloseOut
Consumer == Handoff \/ RecvClosed

SpecAsync ==
    /\ InitAsync
    /\ [][NextAsync]_vars
    /\ WF_vars(AsyncReturn)
    /\ WF_vars(Producer)
    /\ WF_vars(Consumer)

----------------------------------------------------------------------------
(* ConvertTimeToEpoch as a step of the calling process *)

ConvCall ==
    /\ convPc = "idle"
    /\ \E t \in ConvInputs : convIn' = t
    /\ convPc' = "called"
    /\ UNCHANGED <<convRet, pagVars, apiVars, cfgVars, otherVars>>

ConvRun ==
    /\ convPc = "called"
    /\ LET r == ConvertTimeToEpoch(convIn)
       IN  IF r.exit
           THEN convPc' = "exited" /\ UNCHANGED convRet
           ELSE convPc' = "returned" /\ convRet' = [epoch |-> r.epoch, err |-> r.err]
    /\ UNCHANGED <<convIn, pagVars, apiVars, cfgVars, otherVars>>

NextConv ==
    \/ ConvCall
    \/ ConvRun

SpecConv == InitConv /\ [][NextConv]_vars

----------------------------------------------------------------------------
(* resty: client.R() makes a new request with no parameters; SetQueryParams *)
(* and SetPathParams act on the request they are called on; Get sends the   *)
(* request it is called on.  The client made by CreateAwnClient has no      *)
(* query parameters of its own.                                             *)

devicesEndpoint == "devices"

R == [query |-> EmptyMap, path |-> EmptyMap, sent |-> FALSE, url |-> ""]

SetQueryParams(req, params) == [req EXCEPT !.query = MapSet(@, params)]

SetPathParams(req, params) == [req EXCEPT !.path = MapSet(@, params)]

Get(req, url) == [req EXCEPT !.sent = TRUE, !.url = url]

\* the requests getDeviceData creates, in order, up to the call of Get
getDeviceDataRequests(fd) ==
    << SetQueryParams(R, [apiKey |-> fd.API,
                          applicationKey |-> fd.App,
                          endDate |-> FormatInt(fd.Epoch),
                          limit |-> FormatInt(fd.Limit)]),
       Get(SetPathParams(R, [devicesEndpoint |-> devicesEndpoint,
                             macAddress |-> fd.Mac]),
           "{devicesEndpoint}/{macAddress}") >>

\* the requests GetLatestData creates, in order, up to the call of Get
GetLatestDataRequests(fd) ==
    << SetQueryParams(R, [apiKey |-> fd.API, applicationKey |-> fd.App]),
       Get(R, devicesEndpoint) >>

\* GetLatestData after the transport call has returned: ce is ctx.Err(), t
\* the transport's outcome.  errors.New makes a new error value on each call.
GetLatestData(ce, t) ==
    IF ce = "DeadlineExceeded"
    THEN [val |-> "nil", err |-> "errors.New(context timeout exceeded)"]
    ELSE [val |-> "deviceData", err |-> t.err]

\* errors.Is for errors that wrap nothing: the same error value
errorsIs(e, target) == e = target

\* CheckResponse; log.Panicf logs and panics, so the return statements that
\* follow it are never reached
CheckResponse(b) ==
    IF b.hasError
    THEN CASE b.message = "apiKey-missing"         -> [panic |-> TRUE, ok |-> FALSE, err |-> "none"]
           [] b.message = "applicationKey-missing" -> [panic |-> TRUE, ok |-> FALSE, err |-> "none"]
           [] b.message = "date-invalid"           -> [panic |-> TRUE, ok |-> FALSE, err |-> "none"]
           [] b.message = "macAddress-missing"     -> [panic |-> TRUE, ok |-> FALSE, err |-> "none"]
           [] OTHER                                -> [panic |-> FALSE, ok |-> FALSE, err |-> "nil"]
    ELSE [panic |-> FALSE, ok |-> TRUE, err |-> "nil"]

----------------------------------------------------------------------------
(* Direct calls of getDeviceData, GetLatestData and CheckResponse *)

MaxLimit == 288

FDValues ==
    [API : {"", "api"}, App : {"", "app"}, Epoch : {0, epochIncrement24h},
     Limit : {0, 1, MaxLimit, MaxLimit + 1}, Mac : {"", "mac"}]

ResponseBodies ==
    [hasError : {TRUE},
     message : {"apiKey-missing", "applicationKey-missing", "date-invalid",
                "macAddress-missing", "rate-limit-exceeded"}]
    \cup {[hasError |-> FALSE, message |-> ""]}

InitApi ==
    /\ clock = 0
    /\ mode = "sync"
    /\ callerFD = CreateAPIConfig("api", "app")
    /\ PagIdle
    /\ ConvIdle
    /\ ApiIdle
    /\ CfgIdle
    /\ OtherIdle

\* getDeviceData up to the moment its request has been sent
ApiCallGetDeviceData ==
    /\ apiPc = "idle"
    /\ \E fd \in FDValues :
           /\ apiFD' = fd
           /\ requests' = getDeviceDataRequests(fd)
    /\ apiPc' = "getDeviceData"
    /\ UNCHANGED <<apiRet, checkRet, pagVars, convVars, cfgVars, otherVars>>

\* the transport call returns and getDeviceData returns
ApiDeviceDataReturn ==
    /\ apiPc = "getDeviceData"
    /\ \E t \in TransportOutcomes :
           LET r == getDeviceData(ctxErr, t)
           IN  apiRet' = [fn |-> "getDeviceData", ctx |-> ctxErr, val |-> "response",
                          recs |-> r.recs, err |-> r.err]
    /\ apiPc' = "idle"
    /\ UNCHANGED <<apiFD, requests, checkRet, pagVars, convVars, cfgVars,
                   otherVars>>

\* GetLatestData up to the moment its request has been sent
ApiCallGetLatestData ==
    /\ apiPc = "idle"
    /\ \E fd \in FDValues :
           /\ apiFD' = fd
           /\ requests' = GetLatestDataRequests(fd)
    /\ apiPc' = "GetLatestData"
    /\ UNCHANGED <<apiRet, checkRet, pagVars, convVars, cfgVars, otherVars>>

\* the transport call returns and GetLatestData returns
ApiLatestReturn ==
    /\ apiPc = "GetLatestData"
    /\ \E t \in TransportOutcomes :
           LET r == GetLatestData(ctxErr, t)
           IN  apiRet' = [fn |-> "GetLatestData", ctx |-> ctxErr, val |-> r.val,
                          recs |-> t.recs, err |-> r.err]
    /\ apiPc' = "idle"
    /\ UNCHANGED <<apiFD, requests, checkRet, pagVars, convVars, cfgVars,
                   otherVars>>

ApiCheckResponse ==
    /\ apiPc = "idle"
    /\ \E b \in ResponseBodies :
           LET r == CheckResponse(b)
           IN  checkRet' = [called |-> TRUE, hasError |-> b.hasError, message |-> b.message,
                            panic |-> r.panic, ok |-> r.ok, err |-> r.err]
    /\ UNCHANGED <<apiPc, apiFD, requests, apiRet, pagVars, convVars, cfgVars,
                   otherVars>>

NextApi ==
    \/ CtxCancel
    \/ CtxDeadline
    \/ ApiCallGetDeviceData
    \/ ApiDeviceDataReturn
    \/ ApiCallGetLatestData
    \/ ApiLatestReturn
    \/ ApiCheckResponse

SpecApi == InitApi /\ [][NextApi]_vars

----------------------------------------------------------------------------
(* CreateAPIConfig and NewFunctionData as allocations: heap[a] is the       *)
(* FunctionData object at address a                                         *)

\* the caller makes at most MaxConfigs FunctionData objects
MaxConfigs == 2

\* faulty variant: one package-level object is handed out by every call
AllocShared(h) == 1

\* &FunctionData{...}: a new object
Alloc(h) == Len(h) + 1

InitCfg ==
    /\ clock = 0
    /\ mode = "sync"
    /\ callerFD = CreateAPIConfig("api", "app")
    /\ PagIdle
    /\ ConvIdle
    /\ ApiIdle
    /\ CfgIdle
    /\ OtherIdle

\* fd := NewFunctionData(); fd.API = api; fd.App = app; return fd
CfgCreate ==
    /\ Len(created) < MaxConfigs
    /\ \E api \in {"", "api"}, app \in {"", "app"} :
           LET a == Alloc(heap)
           IN  /\ heap' = IF a > Len(heap)
                          THEN Append(heap, CreateAPIConfig(api, app))
                          ELSE [heap EXCEPT ![a] = CreateAPIConfig(api, app)]
               /\ created' = Append(created, [addr |-> a, api |-> api, app |-> app])
    /\ UNCHANGED <<touched, pagVars, convVars, apiVars, otherVars>>

\* the caller assigns to a field of a config it holds, as a session does
\* with the device address, the limit and the checkpoint
CfgAssign ==
    /\ \E k \in 1..Len(created) :
           LET a == created[k].addr
           IN  /\ \/ heap' = [heap EXCEPT ![a].Mac = "mac"]
                  \/ heap' = [heap EXCEPT ![a].Limit = MaxLimit]
                  \/ heap' = [heap EXCEPT ![a].Epoch = epochIncrement24h]
                  \/ heap' = [heap EXCEPT ![a].API = "other"]
               /\ touched' = touched \cup {a}
    /\ UNCHANGED <<created, pagVars, convVars, apiVars, otherVars>>

NextCfg ==
    \/ CfgCreate
    \/ CfgAssign

SpecCfg == InitCfg /\ [][NextCfg]_vars

----------------------------------------------------------------------------
(* The client of CreateAwnClient: SetRetryCount(retryCount) and the retry   *)
(* condition.  resty runs a Get as a loop of attempts, attempt = 0, 1, ...  *)
(* up to the retry count: after each attempt the retry condition is asked   *)
(* about the response, and the loop ends when it answers false or the       *)
(* count is used up.  An attempt that got no response has status code 0.    *)

retryCount == 3

StatusRequestTimeout == 408
StatusTooManyRequests == 429
StatusInternalServerError == 500

\* the status codes an attempt can come back with
StatusCodes == {0, 200, 400, 401, 404, 408, 429, 499, 500, 503}

\* faulty variant: every status of an error is retried
RetryOnAnyError(status) == status >= 400

\* the function given to AddRetryCondition
RetryCondition(status) ==
    \/ status = StatusRequestTimeout
    \/ status >= StatusInternalServerError
    \/ status = StatusTooManyRequests

\* .Get(...) is called on a request of the client
GetStart ==
    /\ getPc = "idle"
    /\ getPc' = "running"
    /\ attempt' = 0
    /\ statuses' = <<>>
    /\ UNCHANGED <<pagVars, convVars, apiVars, cfgVars, sesVars, errVars>>

\* one attempt and the decision that follows it
Attempt ==
    /\ getPc = "running"
    /\ attempt <= retryCount
    /\ \E st \in StatusCodes :
           /\ statuses' = Append(statuses, st)
           /\ IF RetryCondition(st) /\ attempt < retryCount
              THEN getPc' = "running"
              ELSE getPc' = "surfaced"
    /\ attempt' = attempt + 1
    /\ UNCHANGED <<pagVars, convVars, apiVars, cfgVars, sesVars, errVars>>

\* the caller goes on to its next Get
GetDone ==
    /\ getPc = "surfaced"
    /\ getPc' = "idle"
    /\ UNCHANGED <<attempt, statuses, pagVars, convVars, apiVars, cfgVars, sesVars,
                   errVars>>

InitRetry ==
    /\ clock = 0
    /\ mode = "sync"
    /\ callerFD = CreateAPIConfig("api", "app")
    /\ PagIdle
    /\ ConvIdle
    /\ ApiIdle
    /\ CfgIdle
    /\ OtherIdle

NextRetry ==
    \/ GetStart
    \/ Attempt
    \/ GetDone

SpecRetry == InitRetry /\ [][NextRetry]_vars

----------------------------------------------------------------------------
(* Two pagination sessions started from one FunctionData value.  Go passes  *)
(* the struct by value; in client/client.go its field Ct is a pointer to    *)
(* the resty client made by CreateAPIConfig, so the copies share the        *)
(* client, and getDeviceData sets the query parameters on that client;      *)
(* resty adds the parameters of the client to each request when it is sent. *)
(* In client.go getDeviceData makes a client of its own for every call and  *)
(* sets the parameters on a request it drops.                               *)

\* faulty variant: the sessions are given a pointer to the caller's object
CellOfCaller(s) == 0

\* the parameter funcData of session s is an object of its own
Cell(s) == s

\* the map getDeviceData passes to SetQueryParams
QueryOf(fd) ==
    [apiKey |-> fd.API, applicationKey |-> fd.App,
     endDate |-> FormatInt(fd.Epoch), limit |-> FormatInt(fd.Limit)]

\* the call: funcData is a copy of the caller's struct, i := funcData.Epoch
SesCall(s) ==
    /\ sesPc[s] = "before"
    /\ cells' = [cells EXCEPT ![Cell(s)] = cells[0]]
    /\ sesI' = [sesI EXCEPT ![s] = cells[0].Epoch]
    /\ sesPc' = [sesPc EXCEPT ![s] = "test"]
    /\ UNCHANGED <<pkg, ctQuery, sent, pagVars, convVars, apiVars, cfgVars, rtVars,
                   errVars>>

\* the loop test and funcData.Epoch = i
SesLoopTest(s) ==
    /\ sesPc[s] = "test"
    /\ IF LoopCond(sesI[s], clock)
       THEN /\ cells' = [cells EXCEPT ![Cell(s)].Epoch = sesI[s]]
            /\ sesPc' = [sesPc EXCEPT ![s] = "set"]
       ELSE /\ sesPc' = [sesPc EXCEPT ![s] = "done"]
            /\ UNCHANGED cells
    /\ UNCHANGED <<pkg, sesI, ctQuery, sent, pagVars, convVars, apiVars, cfgVars,
                   rtVars, errVars>>

\* getDeviceData up to SetQueryParams: on the shared client in client/client.go,
\* on a request that is not used again in client.go
SesSetQueryParams(s) ==
    /\ sesPc[s] = "set"
    /\ ctQuery' = IF pkg = "client" THEN MapSet(ctQuery, QueryOf(cells[Cell(s)]))
                  ELSE ctQuery
    /\ sesPc' = [sesPc EXCEPT ![s] = "get"]
    /\ UNCHANGED <<pkg, cells, sesI, sent, pagVars, convVars, apiVars, cfgVars,
                   rtVars, errVars>>

\* R()...Get(...): the request goes out with the query parameters of its
\* client; then the rest of the loop body and i += epochIncrement24h
SesGet(s) ==
    /\ sesPc[s] = "get"
    /\ sent' = [sent EXCEPT ![s] =
                   Append(@, [cursor |-> sesI[s],
                              epoch |-> cells[Cell(s)].Epoch,
                              query |-> IF pkg = "client" THEN ctQuery ELSE EmptyMap])]
    /\ sesI' = [sesI EXCEPT ![s] = NextCheckpoint(@)]
    /\ sesPc' = [sesPc EXCEPT ![s] = "test"]
    /\ UNCHANGED <<pkg, cells, ctQuery, pagVars, convVars, apiVars, cfgVars, rtVars,
                   errVars>>

InitSessions ==
    /\ clock \in Times
    /\ mode = "sync"
    /\ \E c \in StartEpochs :
           callerFD = [CreateAPIConfig("api", "app") EXCEPT !.Epoch = c, !.Mac = "mac"]
    /\ PagIdle
    /\ ConvIdle
    /\ ApiIdle
    /\ CfgIdle
    /\ RetryIdle
    /\ ErrIdle
    /\ pkg \in {"awn", "client"}
    /\ cells = [c \in {0} \cup Sessions |-> IF c = 0 THEN callerFD ELSE NewFunctionData]
    /\ sesPc = [s \in Sessions |-> "before"]
    /\ sesI = [s \in Sessions |-> 0]
    /\ ctQuery = EmptyMap
    /\ sent = [s \in Sessions |-> <<>>]

NextSessions ==
    \/ \E s \in Sessions : SesCall(s)
    \/ \E s \in Sessions : SesLoopTest(s)
    \/ \E s \in Sessions : SesSetQueryParams(s)
    \/ \E s \in Sessions : SesGet(s)

SpecSessions == InitSessions /\ [][NextSessions]_vars

----------------------------------------------------------------------------
(* errors.go: ClientError and its methods.  The first element of a chain    *)
(* is the error itself: a ClientError (kind, value), the *fmt.wrapError     *)
(* that fmt.Errorf makes for %w, or another error; the rest is its err.     *)

\* c.with(val): a copy of c with the value val
with(c, val) == <<[c[1] EXCEPT !.value = val]>> \o Tail(c)

\* c.from(pos, err): a copy of c with the value pos and the err err
from(c, pos, err) == <<[c[1] EXCEPT !.value = pos]>> \o err

\* c.Unwrap(): c.err
Unwrap(c) == Tail(c)

\* c.Wrap(): fmt.Errorf("error: %w", c)
Wrap(c) == <<[t |-> "wrapError", kind |-> 0, value |-> 0]>> \o c

\* errors.As(err, &clientError): the first ClientError of err's chain
RECURSIVE errorsAs(_)
errorsAs(err) ==
    IF err = <<>> THEN [ok |-> FALSE, clientError |-> Sentinel(0)[1]]
    ELSE IF err[1].t = "ClientError" THEN [ok |-> TRUE, clientError |-> err[1]]
    ELSE errorsAs(Tail(err))

\* faulty variant: the value is compared as well as the kind
IsByKindAndValue(c, err) ==
    LET as == errorsAs(err)
    IN  as.ok /\ as.clientError.kind = c[1].kind /\ as.clientError.value = c[1].value

\* c.Is(err)
Is(c, err) ==
    LET as == errorsAs(err)
    IN  as.ok /\ as.clientError.kind = c[1].kind

\* errors.Is(err, target) of the standard library, for a target that is a
\* sentinel: err == target, or err's method Is, then the same for what err
\* wraps
RECURSIVE errorsIsChain(_, _)
errorsIsChain(err, target) ==
    IF err = <<>> THEN FALSE
    ELSE IF err = target THEN TRUE
    ELSE IF err[1].t = "ClientError" /\ Is(err, target) THEN TRUE
    ELSE errorsIsChain(Tail(err), target)

\* the values given to with and from
Values == {0, 1, 2}

IoError == <<[t |-> "errorString", kind |-> 0, value |-> 0]>>

\* the errors given to from
InnerErrors ==
    {<<>>, IoError}
    \cup {Sentinel(k) : k \in Kinds}
    \cup {Wrap(with(Sentinel(k), 1)) : k \in Kinds}
    \cup {from(Sentinel(k), 2, IoError) : k \in Kinds}

\* x := ErrA, one of the sentinels
ErrPick ==
    /\ errA = 0
    /\ \E k \in Kinds : errA' = k /\ errX' = sentinel[k]
    /\ UNCHANGED <<sentinel, errArg, pagVars, convVars, apiVars, cfgVars, rtVars,
                   sesVars>>

\* x = x.with(v)
ErrWith ==
    /\ errA /= 0
    /\ errX[1].t = "ClientError"
    /\ \E v \in Values : errX' = with(errX, v)
    /\ UNCHANGED <<sentinel, errA, errArg, pagVars, convVars, apiVars, cfgVars,
                   rtVars, sesVars>>

\* x = x.from(pos, err)
ErrFrom ==
    /\ errA /= 0
    /\ errX[1].t = "ClientError"
    /\ \E pos \in Values, err \in InnerErrors :
           /\ errX' = from(errX, pos, err)
           /\ errArg' = err
    /\ UNCHANGED <<sentinel, errA, pagVars, convVars, apiVars, cfgVars, rtVars,
                   sesVars>>

\* x.Wrap(): what is left is an error, no longer a ClientError
ErrWrap ==
    /\ errA /= 0
    /\ errX[1].t = "ClientError"
    /\ errX' = Wrap(errX)
    /\ UNCHANGED <<sentinel, errA, errArg, pagVars, convVars, apiVars, cfgVars,
                   rtVars, sesVars>>

InitErr ==
    /\ clock = 0
    /\ mode = "sync"
    /\ callerFD = CreateAPIConfig("api", "app")
    /\ PagIdle
    /\ ConvIdle
    /\ ApiIdle
    /\ CfgIdle
    /\ OtherIdle

NextErr ==
    \/ ErrPick
    \/ ErrWith
    \/ ErrFrom
    \/ ErrWrap

SpecErr == InitErr /\ [][NextErr]_vars

----------------------------------------------------------------------------
(* Properties of the pagination                                            *)

StartEpoch == callerFD.Epoch

CeilDiv(a, b) == (a + b - 1) \div b

\* GetHistoricalData has returned and the clock did not move during the call
\* (the clock never goes back, so clock = now0 says it stood still)
SyncDoneClockFixed == mode = "sync" /\ pc = "done" /\ clock = now0

\* getDeviceData calls that have returned
Completed == Len(fetches) - inflight

\* the responses handed on so far: the accumulator of GetHistoricalData, or
\* what the consumer received followed by the response being sent
Delivered ==
    IF mode = "sync" THEN deviceResponse
    ELSE received \o (IF pc = "send" THEN <<resp>> ELSE <<>>)

\* C1 (as amended): with the clock fixed at now during the call,
\* GetHistoricalData makes floor((now - c) / 86400000) + 1 window fetches when
\* c <= now and none when c > now.
C1_FetchCount ==
    SyncDoneClockFixed =>
        Len(fetches) = IF StartEpoch <= now0
                       THEN (now0 - StartEpoch) \div epochIncrement24h + 1
                       ELSE 0

\* C1 as stated: with the clock fixed at now during the call,
\* GetHistoricalData makes exactly ceil((now - c) / 86400000) window fetches
\* when c <= now and none when c > now.
C1_CeilFetchCount ==
    SyncDoneClockFixed =>
        Len(fetches) = IF StartEpoch <= now0
                       THEN CeilDiv(now0 - StartEpoch, epochIncrement24h)
                       ELSE 0

C1_Witness ==
    /\ SyncDoneClockFixed
    /\ StartEpoch <= now0
    /\ (now0 - StartEpoch) % epochIncrement24h = 0
    /\ Len(fetches) >= 2

\* C2: in GetHistoricalData, once a window fetch has returned an error no
\* later window is fetched, and the call returns that error with no
\* partial sequence of responses.
C2_AbortOnFailure ==
    mode = "sync" =>
        /\ \A k \in 1..(Len(fetches) - 1) : fetches[k].err = "nil"
        /\ (ret.returned /\ \E k \in 1..Len(fetches) : fetches[k].err /= "nil")
               => (ret.err /= "nil" /\ ret.val = <<>>)

\* C3: in GetHistoricalDataAsync the responses are sent in checkpoint order
\* start, start + 86400000, start + 2 * 86400000, ...: the k-th response
\* received (and the one being sent) is the one of the k-th checkpoint, so
\* none is out of order and none is sent twice.
C3_CheckpointOrder ==
    mode = "async" =>
        \A k \in 1..Len(Delivered) :
            Delivered[k].window = StartEpoch + (k - 1) * epochIncrement24h

C3_Witness ==
    /\ mode = "async"
    /\ Len(received) >= 2
    /\ pc = "send"

\* C4: in GetHistoricalDataAsync, once a window fetch has failed the
\* goroutine fetches no later window, and the consumer receives a response
\* for the successful windows only.
C4_StopOnFailure ==
    mode = "async" =>
        /\ \A k \in 1..(Len(fetches) - 1) : fetches[k].err \in {"nil", "pending"}
        /\ \A k \in 1..Len(Delivered) : Delivered[k].err = "nil"

\* C5: GetHistoricalDataAsync executes w.Done() exactly once, when it
\* returns: never twice, not before the return, and the consumer receives
\* nothing (no response, no close) before it; the return does not wait for
\* the goroutine, whatever the goroutine's position.
C5_DoneOnce ==
    mode = "async" =>
        /\ wgDone = (IF callerPc = "returned" THEN 1 ELSE 0)
        /\ (Len(received) > 0 \/ sawClose) => wgDone = 1
        /\ callerPc = "incall" => ENABLED AsyncReturn

C5_Witness ==
    /\ mode = "async"
    /\ wgDone = 1
    /\ pc = "inflight"
    /\ received = <<>>

\* C6: at most one HTTP request is in flight at any instant, and every
\* window's request but the latest has returned.
C6_OneInFlight ==
    /\ inflight <= 1
    /\ \A k \in 1..(Len(fetches) - 1) : fetches[k].err /= "pending"

C6_Witness ==
    /\ inflight = 1
    /\ Len(fetches) >= 2

\* C7: consecutive window fetches use checkpoints exactly 86400000 apart
\* whatever the windows returned, and every fetch that has returned
\* contributed one response, with the records and the error getDeviceData
\* returned: an empty array gives a response of length zero with no error.
C7_Cadence ==
    /\ \A k \in 2..Len(fetches) :
           fetches[k].window = fetches[k - 1].window + epochIncrement24h
    /\ Len(Delivered) = Completed
    /\ \A k \in 1..Len(Delivered) :
           /\ Delivered[k].window = fetches[k].window
           /\ Delivered[k].err = fetches[k].err
    /\ Len(Delivered) > 0 =>
           /\ Delivered[Len(Delivered)].recs = lastCall.recs
           /\ lastCall.ctx /= "DeadlineExceeded" =>
                  /\ lastCall.recs = lastCall.trecs
                  /\ lastCall.err = lastCall.terr

C7_Witness ==
    \E k \in 1..(Len(deviceResponse) - 1) :
        /\ deviceResponse[k].recs = 0
        /\ deviceResponse[k].err = "nil"
        /\ deviceResponse[k + 1].recs > 0
        /\ deviceResponse[k + 1].window = deviceResponse[k].window + epochIncrement24h

\* C8: while the start checkpoint is greater than the clock no request is
\* made; GetHistoricalData then returns an empty sequence and a nil error,
\* and GetHistoricalDataAsync closes its channel having sent nothing.
C8_FutureStart ==
    StartEpoch > clock =>
        /\ fetches = <<>>
        /\ inflight = 0
        /\ pc \in {"idle", "test", "exit", "done"}
        /\ Delivered = <<>>
        /\ (mode = "sync" /\ pc = "done") => ret = [returned |-> TRUE, val |-> <<>>, err |-> "nil"]
        /\ (mode = "async" /\ pc = "done") => (outClosed /\ closeCount = 1)

C8_Witness ==
    /\ StartEpoch > clock
    /\ mode = "async"
    /\ pc = "done"
    /\ sawClose
    /\ received = <<>>

\* C9: when ctx.Err() is DeadlineExceeded as the transport call returns,
\* getDeviceData returns an empty response and ErrContextTimeoutExceeded,
\* whatever the transport call returned.
C9_Timeout ==
    lastCall.ctx = "DeadlineExceeded" =>
        /\ lastCall.err = "ErrContextTimeoutExceeded"
        /\ lastCall.recs = 0

C9_Witness ==
    /\ lastCall.ctx = "DeadlineExceeded"
    /\ lastCall.trecs > 0
    /\ lastCall.terr = "nil"

----------------------------------------------------------------------------
(* Properties of ConvertTimeToEpoch                                        *)

\* C10: called with a string that does not match the YYYY-MM-DD shape,
\* ConvertTimeToEpoch returns to its caller with the MalformedDate error.
C10_ReturnsMalformedDate ==
    (convPc \in {"returned", "exited"} /\ ~MatchString(convIn)) =>
        (convPc = "returned" /\ convRet.err = "ErrMalformedDate")

\* the calendar, written out: the valid dates among the arguments and the
\* number of days from 1970-01-01 to each, by counting years and months
MonthLengths == <<31, 28, 31, 30, 31, 30, 31, 31, 30, 31, 30, 31>>
LeapYear(y) == (y % 4 = 0 /\ y % 100 /= 0) \/ y % 400 = 0
MonthLength(m, y) == IF m = 2 /\ LeapYear(y) THEN 29 ELSE MonthLengths[m]

ValidDates ==
    {dt \in [y : Years, m : 1..12, d : 1..31] : dt.d <= MonthLength(dt.m, dt.y)}

RECURSIVE DaysOfYearsBefore(_)
DaysOfYearsBefore(y) ==
    IF y <= 1970 THEN 0
    ELSE DaysOfYearsBefore(y - 1) + (IF LeapYear(y - 1) THEN 366 ELSE 365)

RECURSIVE DaysOfMonthsBefore(_, _)
DaysOfMonthsBefore(m, y) ==
    IF m <= 1 THEN 0 ELSE DaysOfMonthsBefore(m - 1, y) + MonthLength(m - 1, y)

DayNumber(dt) == DaysOfYearsBefore(dt.y) + DaysOfMonthsBefore(dt.m, dt.y) + dt.d - 1

\* days * 86400000 + ms in decimal, for a midnight on or after 1970-01-02:
\* 86400000 = 864 * 100000
UnixMilliDecimal(t) == Decimal(t.days * 864) \o <<"0", "0", "0", "0", "0">>

\* C11: for a valid calendar date YYYY-MM-DD ConvertTimeToEpoch returns, with
\* a nil error, the milliseconds from 1970-01-01T00:00:00Z to UTC midnight of
\* that date, a multiple of 86400000: "2014-01-01" gives 1388534400000 and
\* "2023-11-15" gives 1700006400000.
C11_EpochOfDate ==
    \A dt \in ValidDates :
        (convPc \in {"returned", "exited"} /\ convIn = FormatDate(dt.y, dt.m, dt.d)) =>
            /\ convPc = "returned"
            /\ convRet.err = "nil"
            /\ convRet.epoch = [days |-> DayNumber(dt), ms |-> 0]
            /\ dt = [y |-> 2014, m |-> 1, d |-> 1] =>
                   UnixMilliDecimal(convRet.epoch)
                       = <<"1", "3", "8", "8", "5", "3", "4", "4", "0", "0", "0", "0", "0">>
            /\ dt = [y |-> 2023, m |-> 11, d |-> 15] =>
                   UnixMilliDecimal(convRet.epoch)
                       = <<"1", "7", "0", "0", "0", "0", "6", "4", "0", "0", "0", "0", "0">>

C11_Witness ==
    /\ convPc = "returned"
    /\ convIn = FormatDate(2023, 11, 15)
    /\ convRet.err = "nil"
    /\ convRet.epoch.days = 19676

----------------------------------------------------------------------------
(* Properties of getDeviceData, GetLatestData and CheckResponse            *)

DeviceURL == "{devicesEndpoint}/{macAddress}"

\* the requests of the current or last direct call that were sent
Sent == {k \in 1..Len(requests) : requests[k].sent}

HasParam(req, key) == key \in DOMAIN req.query

\* C12: no request is sent by getDeviceData for a FunctionData whose API,
\* App or Mac is empty; such a call fails with the error of the missing
\* credential or device address.
C12_RejectsEmpty ==
    /\ \A k \in Sent :
           requests[k].url = DeviceURL =>
               (apiFD.API /= "" /\ apiFD.App /= "" /\ apiFD.Mac /= "")
    /\ (apiPc = "idle" /\ apiRet.fn = "getDeviceData" /\ Sent = {}) =>
           /\ apiFD.API = "" => apiRet.err = "ErrAPIKeyMissing"
           /\ (apiFD.API /= "" /\ apiFD.App = "") => apiRet.err = "ErrAppKeyMissing"
           /\ (apiFD.API /= "" /\ apiFD.App /= "") => apiRet.err = "ErrMacAddressMissing"

\* C13: the request on which Get is executed carries apiKey and
\* applicationKey, and for getDeviceData also endDate (the checkpoint in
\* decimal) and limit (in decimal), as built from the FunctionData.
C13_RequestCarriesParams ==
    \A k \in Sent :
        /\ HasParam(requests[k], "apiKey") /\ requests[k].query.apiKey = apiFD.API
        /\ HasParam(requests[k], "applicationKey")
               /\ requests[k].query.applicationKey = apiFD.App
        /\ requests[k].url = DeviceURL =>
               /\ HasParam(requests[k], "endDate")
                      /\ requests[k].query.endDate = FormatInt(apiFD.Epoch)
               /\ HasParam(requests[k], "limit")
                      /\ requests[k].query.limit = FormatInt(apiFD.Limit)

\* C14: a request is sent by getDeviceData only for a FunctionData whose
\* Limit is in 1..288.
C14_LimitInRange ==
    \A k \in Sent :
        requests[k].url = DeviceURL => (1 <= apiFD.Limit /\ apiFD.Limit <= MaxLimit)

RemoteErrorKind(message) ==
    CASE message = "apiKey-missing"         -> "ErrAPIKeyMissing"
      [] message = "applicationKey-missing" -> "ErrAppKeyMissing"
      [] message = "date-invalid"           -> "ErrInvalidDateFormat"
      [] message = "macAddress-missing"     -> "ErrMacAddressMissing"
      [] OTHER                              -> "RemoteRejected"

\* C15: CheckResponse returns to its caller; for a body with an error
\* message it returns the error of that message (APIKeyMissing,
\* AppKeyMissing, InvalidDateFormat, MacAddressMissing, or a non-nil generic
\* failure for any other message), and for a body with no error key none.
C15_TypedFailure ==
    checkRet.called =>
        /\ ~checkRet.panic
        /\ IF ~checkRet.hasError THEN checkRet.err = "nil"
           ELSE IF RemoteErrorKind(checkRet.message) = "RemoteRejected"
                THEN checkRet.err \notin {"nil", "none"}
                ELSE checkRet.err = RemoteErrorKind(checkRet.message)

\* C17: when ctx.Err() is DeadlineExceeded as the transport call returns,
\* GetLatestData returns a nil device summary and an error that matches
\* ErrContextTimeoutExceeded, as getDeviceData does.
C17_LatestTimeoutKind ==
    (apiRet.fn = "GetLatestData" /\ apiRet.ctx = "DeadlineExceeded") =>
        /\ apiRet.val = "nil"
        /\ errorsIs(apiRet.err, getDeviceData("DeadlineExceeded", [recs |-> 0, err |-> "nil"]).err)
        /\ errorsIs(apiRet.err, "ErrContextTimeoutExceeded")

----------------------------------------------------------------------------
(* Properties of CreateAPIConfig                                           *)

\* C18: CreateAPIConfig(api, app) returns a new FunctionData with API = api,
\* App = app, Epoch = 0, Limit = 1, Mac = "": the objects of different calls
\* are distinct, and an object the caller has not assigned to keeps these
\* values whatever is assigned to the others.
C18_FreshConfig ==
    /\ \A k \in 1..Len(created) : created[k].addr \in 1..Len(heap)
    /\ \A j, k \in 1..Len(created) : j /= k => created[j].addr /= created[k].addr
    /\ \A k \in 1..Len(created) :
           created[k].addr \notin touched =>
               heap[created[k].addr] = [API |-> created[k].api, App |-> created[k].app,
                                        Epoch |-> 0, Limit |-> 1, Mac |-> ""]

C18_Witness ==
    /\ Len(created) = 2
    /\ touched = {created[1].addr}
    /\ heap[created[1].addr].Mac = "mac"
    /\ heap[created[1].addr].Epoch = epochIncrement24h
    /\ heap[created[2].addr] = [API |-> "api", App |-> "app", Epoch |-> 0, Limit |-> 1, Mac |-> ""]

----------------------------------------------------------------------------
(* Pacing, handoff and the clock of the loop test                          *)

\* C16: two consecutive requests of a pagination are at least one second
\* apart: when a request other than the first is sent, at least OneSecond
\* has passed since the previous call of getDeviceData returned.
C16_OneSecondApart ==
    (pc = "inflight" /\ Len(fetches) >= 2) => sinceReturn >= OneSecond

\* C19: in the streaming mode the producer does not send the request for a
\* window before the consumer has received every earlier window, and at
\* most one response that was fetched is not yet received.
C19_SingleSlot ==
    mode = "async" =>
        /\ pc = "inflight" => Len(received) = Len(fetches) - 1
        /\ Completed - Len(received) \in {0, 1}
        /\ Completed - Len(received) = 1 <=> pc = "send"

C19_Witness ==
    /\ mode = "async"
    /\ pc = "inflight"
    /\ Len(fetches) >= 2
    /\ Len(received) = Len(fetches) - 1

\* C20: every loop test compares the checkpoint with the clock of that
\* moment: the test leads to a request exactly when i <= clock, so a
\* checkpoint after the clock of the call's start is fetched once the clock
\* has reached it.
C20_FreshClock ==
    [][(pc = "test" /\ pc' \in {"inflight", "exit"}) =>
           /\ pc' = "inflight" <=> i <= clock
           /\ pc' = "inflight" => fetches' = Append(fetches, [window |-> i, err |-> "pending"])]_vars

C20_Witness ==
    /\ pc = "inflight"
    /\ fetches[Len(fetches)].window > now0
    /\ fetches[Len(fetches)].window <= clock

----------------------------------------------------------------------------
(* Termination                                                             *)

\* C21: GetHistoricalData terminates: when every transport call comes back
\* and the clock does not run ahead of the checkpoint for ever, the call
\* returns; and the loop is left only when the checkpoint is greater than
\* the clock read by that loop test.
C21_Terminates ==
    /\ (mode = "sync" /\ callerPc = "incall") ~> ret.returned
    /\ [][(mode = "sync" /\ pc = "test" /\ pc' = "exit") => i > clock]_vars

C21_Witness ==
    /\ mode = "sync"
    /\ ret.returned
    /\ Len(ret.val) >= 2
    /\ i > clock

\* C22: in the streaming mode with a consumer that keeps receiving, out is
\* closed in the end; it is closed once, when every window that was fetched
\* has been received, and after the close nothing is fetched or sent.
C22_ClosedOnceAtEnd ==
    /\ (mode = "async" /\ callerPc = "incall") ~> (outClosed /\ sawClose)
    /\ [](closeCount <= 1)
    /\ [](outClosed => /\ closeCount = 1
                       /\ pc = "done"
                       /\ resp = NoResp
                       /\ inflight = 0
                       /\ Len(received) = Len(fetches))
    /\ [][outClosed => /\ outClosed'
                       /\ received' = received
                       /\ fetches' = fetches
                       /\ resp' = resp]_vars

C22_Witness ==
    /\ mode = "async"
    /\ outClosed
    /\ sawClose
    /\ Len(received) >= 2

----------------------------------------------------------------------------
(* Retries of the transport                                                *)

\* C23: one Get makes at most 1 + 3 attempts; every attempt but the last
\* was answered with 408, 429 or a status >= 500; and a response with any
\* other status ends the Get at once, so while the Get is running every
\* response so far was one of these.
C23_RetryPolicy ==
    LET Retryable(st) == st = 408 \/ st = 429 \/ st >= 500
    IN  /\ Len(statuses) <= 1 + 3
        /\ attempt = Len(statuses)
        /\ \A k \in 1..(Len(statuses) - 1) : Retryable(statuses[k])
        /\ (getPc = "running" /\ statuses /= <<>>) =>
               Retryable(statuses[Len(statuses)])
        /\ (getPc = "surfaced" /\ Len(statuses) < 1 + 3) =>
               ~Retryable(statuses[Len(statuses)])

C23_Witness ==
    /\ getPc = "surfaced"
    /\ statuses = <<429, 503, 408, 404>>

----------------------------------------------------------------------------
(* Kinds of the failures of ConvertTimeToEpoch                             *)

\* C24: ConvertTimeToEpoch returns with a nil error only for a string that
\* is exactly a valid YYYY-MM-DD date; for a string that matches the digit
\* pattern and is not a valid date it returns the MalformedDate error; and
\* Parse has run only when the pattern matched.
C24_CalendarMalformed ==
    LET ValidStrings == {FormatDate(dt.y, dt.m, dt.d) : dt \in ValidDates}
    IN  /\ (convPc = "returned" /\ convRet.err = "nil") => convIn \in ValidStrings
        /\ convPc = "returned" => MatchString(convIn)
        /\ (convPc \in {"returned", "exited"} /\ MatchString(convIn)
              /\ convIn \notin ValidStrings) =>
               (convPc = "returned" /\ convRet.err = "ErrMalformedDate")

----------------------------------------------------------------------------
(* The context                                                             *)

\* C25: the context is looked at once per window, when the transport call
\* has returned: the request of a window is sent whatever the context is,
\* the result of the window is decided by ctx.Err() as it is at the return,
\* and only DeadlineExceeded makes it a failure, Canceled does not.
C25_ContextAfterFetch ==
    /\ [](/\ lastCall.err = "ErrContextTimeoutExceeded" <=> lastCall.ctx = "DeadlineExceeded"
          /\ lastCall.ctx \in {"nil", "Canceled"} =>
                 (lastCall.recs = lastCall.trecs /\ lastCall.err = lastCall.terr))
    /\ [][/\ (pc = "test" /\ i <= clock /\ pc' /= pc) =>
                 (pc' = "inflight" /\ Len(fetches') = Len(fetches) + 1)
          /\ (pc = "inflight" /\ ctxErr' /= ctxErr) => (pc' = "inflight" /\ fetches' = fetches)
          /\ (pc = "inflight" /\ pc' /= pc) => lastCall'.ctx = ctxErr]_vars

C25_Witness ==
    /\ Len(fetches) >= 3
    /\ fetches[1].err = "ErrContextTimeoutExceeded"
    /\ fetches[2].err = "ErrContextTimeoutExceeded"
    /\ pc = "inflight"
    /\ ctxErr = "DeadlineExceeded"

----------------------------------------------------------------------------
(* What GetHistoricalData returns                                          *)

\* C26: GetHistoricalData returns a nil error, and a slice with one entry
\* per window fetched, in the order of the checkpoints: the entry at index
\* k (from 0) is the response of checkpoint start + k * 86400000, with the
\* records and the error of that fetch, failed or not.
C26_OneEntryPerWindow ==
    (mode = "sync" /\ ret.returned) =>
        /\ ret.err = "nil"
        /\ Len(ret.val) = Len(fetches)
        /\ \A k \in 0..(Len(ret.val) - 1) :
               /\ ret.val[k + 1].window = StartEpoch + k * 86400000
               /\ ret.val[k + 1].window = fetches[k + 1].window
               /\ ret.val[k + 1].err = fetches[k + 1].err
               /\ ret.val[k + 1].err = "ErrContextTimeoutExceeded" => ret.val[k + 1].recs = 0

C26_Witness ==
    /\ mode = "sync"
    /\ ret.returned
    /\ Len(ret.val) = 3
    /\ ret.val[1].err = "transport"
    /\ ret.val[2].err = "ErrContextTimeoutExceeded"
    /\ ret.val[3].err = "ErrContextTimeoutExceeded"

----------------------------------------------------------------------------
(* Two sessions from one FunctionData                                      *)

\* the number of checkpoints start, start + 86400000, ... that are <= now
WindowsUpTo(start, now) ==
    IF start > now THEN 0 ELSE (now - start) \div epochIncrement24h + 1

\* C27: with the code of client.go the caller's FunctionData, its Epoch
\* included, stays as it was, and each of two sessions started from it
\* fetches its own checkpoints start, start + 86400000, ... in order, all
\* of them up to the clock, whatever the other session does.
C27_OwnCopy ==
    pkg = "awn" =>
        /\ cells[0] = callerFD
        /\ \A s \in Sessions :
               /\ \A k \in 1..Len(sent[s]) :
                      /\ sent[s][k].epoch = callerFD.Epoch + (k - 1) * epochIncrement24h
                      /\ sent[s][k].cursor = sent[s][k].epoch
               /\ sesPc[s] = "done" =>
                      Len(sent[s]) = WindowsUpTo(callerFD.Epoch, clock)

C27_Witness ==
    /\ pkg = "awn"
    /\ sesPc[1] = "get"
    /\ sesPc[2] = "done"
    /\ Len(sent[1]) = 1
    /\ Len(sent[2]) = 3
    /\ cells[1].Epoch = callerFD.Epoch + epochIncrement24h

\* C28: with the code of client/client.go every request of a session has
\* the session's own checkpoint as endDate, also when two sessions share
\* the client.
C28_OwnEndDate ==
    pkg = "client" =>
        \A s \in Sessions : \A k \in 1..Len(sent[s]) :
            /\ "endDate" \in DOMAIN sent[s][k].query
            /\ sent[s][k].query["endDate"] = FormatInt(sent[s][k].cursor)

----------------------------------------------------------------------------
(* A consumer that stops receiving                                         *)

\* C29: while the producer goroutine has a send pending and the consumer
\* does not receive, the producer stays at that send: it sends no further
\* request and does not close out, whatever happens to the clock and to
\* the context; out is open and no request is in flight all that time.
C29_BlockedProducer ==
    /\ []((mode = "async" /\ pc = "send") => (~outClosed /\ inflight = 0 /\ closeCount = 0))
    /\ [][(mode = "async" /\ pc = "send" /\ received' = received) =>
              /\ pc' = "send"
              /\ resp' = resp
              /\ i' = i
              /\ fetches' = fetches
              /\ outClosed' = outClosed]_vars

C29_Witness ==
    /\ mode = "async"
    /\ pc = "send"
    /\ callerPc = "returned"
    /\ lastCall.ctx = "nil"
    /\ ctxErr = "Canceled"
    /\ i + epochIncrement24h <= clock

----------------------------------------------------------------------------
(* ClientError                                                             *)

\* the ClientError that x is, or that x wraps when x came from Wrap
OwnError == IF errX[1].t = "ClientError" THEN errX ELSE Tail(errX)

\* the kinds of the ClientErrors in a chain
KindsIn(err) == {err[n].kind : n \in {m \in 1..Len(err) : err[m].t = "ClientError"}}

\* C30: for x derived from the sentinel of kind A by with, from and Wrap,
\* errors.Is(x, B) holds for the sentinel B exactly when A and B have the
\* same kind.
C30_KindOnly ==
    errA /= 0 =>
        \A k \in Kinds : errorsIsChain(errX, sentinel[k]) <=> k = errA

\* C30, as the code has it: errors.Is(x, B) holds exactly when B's kind is
\* A's or that of a ClientError in the chain of the err given to from; the
\* value never matters; the sentinels stay (kind, 0, nil); and Unwrap
\* gives the err given to from.
C30_KindOrWrapped ==
    /\ sentinel = [k \in Kinds |-> Sentinel(k)]
    /\ errA /= 0 =>
           /\ \A k \in Kinds :
                  errorsIsChain(errX, sentinel[k]) <=> (k = errA \/ k \in KindsIn(errArg))
           /\ errArg = <<>> =>
                  \A k \in Kinds : errorsIsChain(errX, sentinel[k]) <=> k = errA
           /\ OwnError[1].kind = errA
           /\ Unwrap(OwnError) = errArg

C30_Witness ==
    /\ errA = errRegexFailed
    /\ errX[1].t = "wrapError"
    /\ OwnError[1].value = 2
    /\ errArg = IoError
    /\ ~errorsIsChain(errX, sentinel[errMalformedDate])
    /\ errorsIsChain(errX, sentinel[errRegexFailed])

====
